---------------------------- MODULE Spec2Model ----------------------------
(***************************************************************************)
(* Model of experiments/continual/data_gen.py: the Countdown data          *)
(* generator.  DataGenerator.generate_group_data is modelled statement by  *)
(* statement: the seeded generation pass generate_samples (size draw,      *)
(* retry loop around the puzzle engine, strategy draws, search, rating,    *)
(* append), the aliasing of the test split, create_dataset/process_fn and  *)
(* the script's loop over the operator groups.                             *)
(*                                                                         *)
(* The module `random` is one shared source whose state is `rng`.  The     *)
(* puzzle engine (examples/data_preprocess/countdown_generate.py) is not   *)
(* part of the sources at hand; it is modelled from its contract: it draws *)
(* from the shared source and is a function of its arguments and of what   *)
(* it draws.  Which function is not known, so `engine` picks one of a      *)
(* family when the program starts and never changes afterwards.            *)
(***************************************************************************)
EXTENDS Integers, Sequences, FiniteSets, TLC

(***************************************************************************)
(* Bounds of the model.                                                    *)
(***************************************************************************)
\* train_size and test_size range over 0..MaxSize
MaxSize == 3
\* the shared source has RngMod states (its period)
RngMod == 16
\* the per-instance attempt counter and draw log saturate here
MaxAttemptsLogged == 2
\* an engine consumes from 1 to MaxEngineDraws draws per construction
MaxEngineDraws == 3

(***************************************************************************)
(* Program constants.                                                      *)
(***************************************************************************)
BaseSeed == 42
SizeLo == 3
SizeHi == 4
TargetLo == 10
TargetHi == 1000
MaxTarget == 1000

\* self.operator_groups and self.group_names
operator_groups ==
    << <<"+">>, <<"+", "-">>, <<"+", "-", "*">>, <<"+", "-", "*", "/">> >>

group_names ==
    <<"plus", "plus_minus", "plus_minus_mul", "plus_minus_mul_div">>

\* the choice lists of lines 75, 76 and 81
Heuristics == <<"sum_heuristic", "mult_heuristic">>
Searches == <<"dfs", "bfs">>
BeamSizes == <<1, 2, 3, 4, 5>>

Sentinel == "Goal Reached"

\* None, and a local name that is not bound yet
None == <<>>

(***************************************************************************)
(* Strings are sequences of characters or tokens; str(n) of a natural.     *)
(***************************************************************************)
Digit == <<"0", "1", "2", "3", "4", "5", "6", "7", "8", "9">>

RECURSIVE Str(_)
Str(n) ==
    IF n < 10 THEN <<Digit[n + 1]>>
    ELSE Str(n \div 10) \o <<Digit[(n % 10) + 1]>>

\* x in seq
Contains(seq, x) == \E k \in 1..Len(seq) : seq[k] = x

(***************************************************************************)
(* The shared pseudo-random source.  Its state is a number below RngMod;   *)
(* seed(s) sets the state from s alone, every draw reads the state and     *)
(* advances it.  Out scrambles the state into the drawn value.             *)
(***************************************************************************)
SeedSkipped(old, s) == old

Seeded(old, s) == s % RngMod

Advance(r) == (r + 1) % RngMod

\* the state after k draws
RECURSIVE AdvanceBy(_, _)
AdvanceBy(r, k) == IF k = 0 THEN r ELSE AdvanceBy(Advance(r), k - 1)

Out(r) == (r * r * 11 + r * 13 + 7 + (r \div 3) * 5) % 53

\* random.randint(lo, hi)
RandInt(r, lo, hi) == lo + ((Out(r) * 37) % (hi - lo + 1))

\* random.choice(seq)
Choice(r, seq) == seq[1 + (Out(r) % Len(seq))]


(***************************************************************************)
(* The puzzle engine, from its contract.  EngineKinds is the family of     *)
(* engines: one that always constructs a solution, one whose construction  *)
(* fails on some of its draws, one that never succeeds; each consuming a   *)
(* fixed number of draws per construction.                                 *)
(***************************************************************************)
EngineKinds == {"always", "mixed", "never"}

Engines == [kind : EngineKinds, draws : 1..MaxEngineDraws]

\* CountDown(max_target, start_size, operators)
CountDown(max_target, size, ops) ==
    [max_target |-> max_target, start_size |-> size, operators |-> ops]

RECURSIVE SumSeq(_)
SumSeq(seq) == IF seq = <<>> THEN 0 ELSE Head(seq) + SumSeq(Tail(seq))

\* the numbers the engine builds from one draw: small addends and the rest
EngineNums(c, tgt, r) ==
    LET small == [j \in 1..(c.start_size - 1) |-> 1 + ((Out(r) + j) % 3)]
    IN  small \o <<tgt - SumSeq(small)>>

EngineSolves(e, r) ==
    CASE e.kind = "always" -> TRUE
      [] e.kind = "never"  -> FALSE
      [] OTHER             -> (Out(r) \div 2) % 2 # 0

\* cd.generate(target) with the source in state r: (nums, solution or None),
\* and the state it leaves the source in
Generate(e, c, tgt, r) ==
    LET ns == EngineNums(c, tgt, r)
    IN  [nums     |-> ns,
         solution |-> IF EngineSolves(e, r)
                      THEN <<"sum", ns, "=", tgt>>
                      ELSE None,
         rng      |-> AdvanceBy(r, e.draws)]

\* cd.convert_to_path(target, nums, solution)
ConvertToPath(tgt, ns, sol) == <<"path", tgt, ns, sol>>

HeuristicBias(h) == IF h = "sum_heuristic" THEN 0 ELSE 1

\* dfs(target, nums, heuristic=..., threshold=...): the trace, a text
Dfs(tgt, ns, h, threshold) ==
    <<"dfs", h>> \o Str(tgt) \o Str(threshold)
      \o (IF (tgt + Len(ns) + HeuristicBias(h)) % 3 # 0
          THEN <<Sentinel>> ELSE <<"No solution">>)

\* bfs(target, nums, beam_size, heuristic=...): the trace, a text
Bfs(tgt, ns, width, h) ==
    <<"bfs", h>> \o Str(tgt) \o Str(width)
      \o (IF (ns[1] + width + HeuristicBias(h)) % 2 = 0
          THEN <<Sentinel>> ELSE <<"No solution">>)

(***************************************************************************)
(* The driver's pure parts.                                                *)
(***************************************************************************)
\* line 55: the argument of random.seed
PassSeedNoGroup(g, off) == BaseSeed + off

PassSeed(g, off) == BaseSeed + g + off

\* line 58: range(num_samples) has another element
LoopOffByOne(done, n) == done <= n

LoopContinues(done, n) == done < n

\* lines 65-69: the attempt ends the retry loop
AcceptedAny(sol) == TRUE

Accepted(sol) == sol # None

\* line 65: `while not ok` goes round again after a null solution
RetryOnce == "path"

RetryTarget == "retry"

\* line 78/80: the beam width is drawn on the bfs branch only
BeamAlways(s) == TRUE

BeamDrawn(s) == s = "bfs"

\* line 85
MaxRating(size) == IF size = 3 THEN 3 * 4 * 4 ELSE 1152

\* lines 86-89
RatingTypo(path) == IF Contains(path, "Goal reached") THEN "1.0" ELSE "0.0"

Rating(path) == IF Contains(path, Sentinel) THEN "1.0" ELSE "0.0"

\* line 98: f"{search.__name__}{'_' + str(beam_size) if search == bfs else ''}"
SearchTypeSuffixAlways(s, width) == <<s>> \o <<"_">> \o Str(width)

SearchType(s, width) ==
    <<s>> \o (IF s = "bfs" THEN <<"_">> \o Str(width) ELSE <<>>)

\* lines 91-100
Sample(l) ==
    [target       |-> l.target,
     nums         |-> l.nums,
     solution     |-> l.solution,
     search_path  |-> l.search_path,
     rating       |-> l.rating,
     optimal_path |-> l.no_backtrack_trace,
     search_type  |-> SearchType(l.search, l.beam_size),
     heuristic    |-> l.heuristic]

\* line 109 (line 108, the separate pass, is commented out)
TestSamplesCut(train, size) == SubSeq(train, 1, IF size < Len(train) THEN size ELSE Len(train))

TestSamples(train, size) == train

\* make_prefix(dp, operators, template_type='base')
make_prefix(dp, ops) ==
    <<"Using the numbers", dp.nums, "create an equation that equals",
      dp.target, "operations", ops>>

\* lines 115-125: the columns, and Dataset.from_dict's rows
Columns(ss) ==
    [target       |-> [k \in 1..Len(ss) |-> ss[k].target],
     nums         |-> [k \in 1..Len(ss) |-> ss[k].nums],
     solution     |-> [k \in 1..Len(ss) |-> ss[k].solution],
     search_path  |-> [k \in 1..Len(ss) |-> ss[k].search_path],
     rating       |-> [k \in 1..Len(ss) |-> ss[k].rating],
     optimal_path |-> [k \in 1..Len(ss) |-> ss[k].optimal_path],
     search_type  |-> [k \in 1..Len(ss) |-> ss[k].search_type],
     heuristic    |-> [k \in 1..Len(ss) |-> ss[k].heuristic]]

FromDict(data) ==
    [k \in 1..Len(data.target) |->
        [target       |-> data.target[k],
         nums         |-> data.nums[k],
         solution     |-> data.solution[k],
         search_path  |-> data.search_path[k],
         rating       |-> data.rating[k],
         optimal_path |-> data.optimal_path[k],
         search_type  |-> data.search_type[k],
         heuristic    |-> data.heuristic[k]]]

\* the idx that Dataset.map(with_indices=True) hands to process_fn for row k
IndexFromOne(k) == k

RowIndex(k) == k - 1

\* lines 127-158; map() keeps the row's columns beside the new ones
process_fn(example, idx, split, g) ==
    [target       |-> example.target,
     nums         |-> example.nums,
     solution     |-> example.solution,
     search_path  |-> example.search_path,
     rating       |-> example.rating,
     optimal_path |-> example.optimal_path,
     search_type  |-> example.search_type,
     heuristic    |-> example.heuristic,
     data_source  |-> "countdown_continual",
     prompt       |-> << [role    |-> "user",
                          content |-> make_prefix(example, <<"+", "-", "*", "/">>)] >>,
     ability      |-> "math",
     reward_model |->
        [style        |-> "rule",
         ground_truth |-> [target       |-> example.target,
                           numbers      |-> example.nums,
                           solution     |-> example.solution,
                           search_path  |-> example.search_path,
                           rating       |-> example.rating,
                           optimal_path |-> example.optimal_path]],
     extra_info   |->
        [split          |-> split,
         index          |-> idx,
         operator_group |-> group_names[g + 1],
         search_type    |-> example.search_type,
         heuristic      |-> example.heuristic]]

\* lines 113-168, the dataset create_dataset returns and saves
create_dataset(ss, split, g) ==
    LET rows == FromDict(Columns(ss))
    IN  [k \in 1..Len(rows) |-> process_fn(rows[k], RowIndex(k), split, g)]

(***************************************************************************)
(* State.                                                                  *)
(***************************************************************************)
VARIABLES
    engine,         \* which engine of the family is installed
    train_size,     \* generate_group_data's arguments
    test_size,
    rng,            \* the state of the shared module `random`
    rerun,          \* the script is in its second run
    pc,             \* the statement about to execute
    group_idx,      \* the script's loop variable
    operators,      \* generate_group_data's locals
    group_name,
    train_samples,
    test_samples,
    train_dataset,
    test_dataset,
    num_samples,    \* generate_samples' arguments and locals
    seed_offset,
    samples,
    done,           \* iterations of range(num_samples) completed
    loc,            \* the names bound in the loop body
    disk,           \* <group_name>/<split>.parquet, None while absent
    \* history, read by the properties only
    gen,            \* the latest cd.generate call: argument and results
    srch,           \* the latest search call and its arguments
    calls,          \* per appended sample: its gen, srch, draws, attempts
    drawLog,        \* the driver's draws of the current instance, in order
    attempts,       \* cd.generate calls of the current instance (saturating)
    seedArg,        \* arguments of random.seed in the current pass, in order
    passes,         \* generate_samples calls of this generate_group_data call
    rngAtReturn,    \* rng when generate_samples returned
    saved,          \* splits written by this generate_group_data call
    firstRun,       \* per group, what generate_samples returned in run one
    firstDisk       \* the files as run one left them

params == <<engine, train_size, test_size>>
groupLocals == <<operators, group_name, train_samples, test_samples,
                 train_dataset, test_dataset>>
passLocals == <<num_samples, seed_offset, samples, done, loc>>
instHist == <<gen, srch, drawLog, attempts>>
passHist == <<calls, seedArg, passes, rngAtReturn>>
runHist == <<firstRun, firstDisk>>

vars == <<params, rng, rerun, pc, group_idx, groupLocals, passLocals, disk,
          instHist, passHist, saved, runHist>>

NumGroups == Len(operator_groups)

NoLocals ==
    [start_size |-> 0, cd |-> CountDown(0, 0, <<>>), ok |-> FALSE,
     target |-> 0, nums |-> <<>>, solution |-> None,
     no_backtrack_trace |-> <<>>, heuristic |-> "", search |-> "",
     beam_size |-> 0, search_path |-> <<>>, max_rating |-> 0, rating |-> ""]

NoFiles == [g \in 1..NumGroups |-> [train |-> None, test |-> None]]

NoGen == [target |-> 0, nums |-> <<>>, solution |-> None]

NoSearch == [fn |-> "", target |-> 0, nums |-> <<>>, heuristic |-> "",
             width |-> 0, threshold |-> 0]

Min(a, b) == IF a < b THEN a ELSE b

\* the process starts: `random` is seeded from the system's entropy
Init ==
    /\ engine \in Engines
    /\ train_size \in 0..MaxSize
    /\ test_size \in 0..MaxSize
    /\ rng \in 0..(RngMod - 1)
    /\ rerun = FALSE
    /\ pc = "group"
    /\ group_idx = 0
    /\ operators = <<>>
    /\ group_name = ""
    /\ train_samples = <<>>
    /\ test_samples = <<>>
    /\ train_dataset = <<>>
    /\ test_dataset = <<>>
    /\ num_samples = 0
    /\ seed_offset = 0
    /\ samples = <<>>
    /\ done = 0
    /\ loc = NoLocals
    /\ disk = NoFiles
    /\ gen = NoGen
    /\ srch = NoSearch
    /\ calls = <<>>
    /\ drawLog = <<>>
    /\ attempts = 0
    /\ seedArg = <<>>
    /\ passes = 0
    /\ rngAtReturn = 0
    /\ saved = {}
    /\ firstRun = [g \in 1..NumGroups |-> None]
    /\ firstDisk = NoFiles

(***************************************************************************)
(* generate_group_data(group_idx, train_size, test_size)                   *)
(***************************************************************************)
\* lines 49-52
StartGroup ==
    /\ pc = "group"
    /\ operators' = operator_groups[group_idx + 1]
    /\ group_name' = group_names[group_idx + 1]
    /\ train_samples' = <<>>
    /\ test_samples' = <<>>
    /\ train_dataset' = <<>>
    /\ test_dataset' = <<>>
    /\ passes' = 0
    /\ saved' = {}
    /\ pc' = "call_train"
    /\ UNCHANGED <<params, rng, rerun, group_idx, passLocals, disk, instHist,
                   calls, seedArg, rngAtReturn, runHist>>

\* line 105 calls generate_samples(train_size); lines 55-56
CallGenerateSamples ==
    /\ pc = "call_train"
    /\ num_samples' = train_size
    /\ seed_offset' = 0
    /\ rng' = Seeded(rng, PassSeed(group_idx, 0))
    /\ seedArg' = <<PassSeed(group_idx, 0)>>
    /\ samples' = <<>>
    /\ done' = 0
    /\ loc' = NoLocals
    /\ passes' = passes + 1
    /\ calls' = <<>>
    /\ drawLog' = <<>>
    /\ attempts' = 0
    /\ pc' = "loop"
    /\ UNCHANGED <<params, rerun, group_idx, groupLocals, disk, gen, srch,
                   rngAtReturn, saved, runHist>>

\* lines 58-61 and 64: the next iteration draws the instance size
DrawSize ==
    /\ pc = "loop"
    /\ LoopContinues(done, num_samples)
    /\ LET size == RandInt(rng, SizeLo, SizeHi)
       IN  loc' = [loc EXCEPT !.start_size = size,
                              !.cd = CountDown(MaxTarget, size, operators),
                              !.ok = FALSE]
    /\ rng' = Advance(rng)
    /\ drawLog' = <<"size">>
    /\ attempts' = 0
    /\ pc' = "retry"
    /\ UNCHANGED <<params, rerun, group_idx, groupLocals, num_samples,
                   seed_offset, samples, done, disk, gen, srch, passHist,
                   saved, runHist>>

\* line 66
DrawTarget ==
    /\ pc = "retry"
    /\ loc' = [loc EXCEPT !.target = RandInt(rng, TargetLo, TargetHi)]
    /\ rng' = Advance(rng)
    /\ drawLog' = IF attempts < MaxAttemptsLogged
                  THEN Append(drawLog, "target") ELSE drawLog
    /\ pc' = "construct"
    /\ UNCHANGED <<params, rerun, group_idx, groupLocals, num_samples,
                   seed_offset, samples, done, disk, gen, srch, attempts,
                   passHist, saved, runHist>>

\* lines 67-69 and the test of line 65; the engine draws from `random`
Construct ==
    /\ pc = "construct"
    /\ LET res == Generate(engine, loc.cd, loc.target, rng)
           ok  == IF Accepted(res.solution) THEN TRUE ELSE loc.ok
       IN  /\ loc' = [loc EXCEPT !.nums = res.nums,
                                 !.solution = res.solution,
                                 !.ok = ok]
           /\ gen' = [target |-> loc.target, nums |-> res.nums,
                      solution |-> res.solution]
           /\ rng' = res.rng
           /\ pc' = IF ok THEN "path" ELSE RetryTarget
    /\ attempts' = Min(attempts + 1, MaxAttemptsLogged)
    /\ UNCHANGED <<params, rerun, group_idx, groupLocals, num_samples,
                   seed_offset, samples, done, disk, srch, drawLog,
                   passHist, saved, runHist>>

\* line 72
ConvertPath ==
    /\ pc = "path"
    /\ loc' = [loc EXCEPT !.no_backtrack_trace =
                              ConvertToPath(loc.target, loc.nums, loc.solution)]
    /\ pc' = "heuristic"
    /\ UNCHANGED <<params, rng, rerun, group_idx, groupLocals, num_samples,
                   seed_offset, samples, done, disk, instHist, passHist,
                   saved, runHist>>

\* line 75
DrawHeuristic ==
    /\ pc = "heuristic"
    /\ loc' = [loc EXCEPT !.heuristic = Choice(rng, Heuristics)]
    /\ rng' = Advance(rng)
    /\ drawLog' = Append(drawLog, "heuristic")
    /\ pc' = "search"
    /\ UNCHANGED <<params, rerun, group_idx, groupLocals, num_samples,
                   seed_offset, samples, done, disk, gen, srch, attempts,
                   passHist, saved, runHist>>

\* lines 76 and 78
DrawSearch ==
    /\ pc = "search"
    /\ LET s == Choice(rng, Searches)
       IN  /\ loc' = [loc EXCEPT !.search = s]
           /\ pc' = IF BeamDrawn(s) THEN "beam" ELSE "dfs"
    /\ rng' = Advance(rng)
    /\ drawLog' = Append(drawLog, "search")
    /\ UNCHANGED <<params, rerun, group_idx, groupLocals, num_samples,
                   seed_offset, samples, done, disk, gen, srch, attempts,
                   passHist, saved, runHist>>

\* line 79
RunDfs ==
    /\ pc = "dfs"
    /\ loc' = [loc EXCEPT !.search_path =
                              Dfs(loc.target, loc.nums, loc.heuristic, loc.target)]
    /\ srch' = [fn |-> "dfs", target |-> loc.target, nums |-> loc.nums,
                heuristic |-> loc.heuristic, width |-> 0,
                threshold |-> loc.target]
    /\ pc' = "rate"
    /\ UNCHANGED <<params, rng, rerun, group_idx, groupLocals, num_samples,
                   seed_offset, samples, done, disk, gen, drawLog, attempts,
                   passHist, saved, runHist>>

\* line 81
DrawBeam ==
    /\ pc = "beam"
    /\ loc' = [loc EXCEPT !.beam_size = Choice(rng, BeamSizes)]
    /\ rng' = Advance(rng)
    /\ drawLog' = Append(drawLog, "beam")
    /\ pc' = "bfs"
    /\ UNCHANGED <<params, rerun, group_idx, groupLocals, num_samples,
                   seed_offset, samples, done, disk, gen, srch, attempts,
                   passHist, saved, runHist>>

\* line 82
RunBfs ==
    /\ pc = "bfs"
    /\ loc' = [loc EXCEPT !.search_path =
                              Bfs(loc.target, loc.nums, loc.beam_size, loc.heuristic)]
    /\ srch' = [fn |-> "bfs", target |-> loc.target, nums |-> loc.nums,
                heuristic |-> loc.heuristic, width |-> loc.beam_size,
                threshold |-> 0]
    /\ pc' = "rate"
    /\ UNCHANGED <<params, rng, rerun, group_idx, groupLocals, num_samples,
                   seed_offset, samples, done, disk, gen, drawLog, attempts,
                   passHist, saved, runHist>>

\* lines 85-89
Rate ==
    /\ pc = "rate"
    /\ loc' = [loc EXCEPT !.max_rating = MaxRating(loc.start_size),
                          !.rating = Rating(loc.search_path)]
    /\ pc' = "append"
    /\ UNCHANGED <<params, rng, rerun, group_idx, groupLocals, num_samples,
                   seed_offset, samples, done, disk, instHist, passHist,
                   saved, runHist>>

\* lines 91-100
AppendSample ==
    /\ pc = "append"
    /\ samples' = Append(samples, Sample(loc))
    /\ done' = done + 1
    /\ calls' = Append(calls, [gen |-> gen, srch |-> srch, draws |-> drawLog,
                               attempts |-> attempts,
                               start_size |-> loc.start_size,
                               cd |-> loc.cd])
    /\ pc' = "loop"
    /\ UNCHANGED <<params, rng, rerun, group_idx, groupLocals, num_samples,
                   seed_offset, loc, disk, instHist, seedArg, passes,
                   rngAtReturn, saved, runHist>>

\* line 58 exhausted, line 102, and the assignment of line 105
ReturnSamples ==
    /\ pc = "loop"
    /\ ~LoopContinues(done, num_samples)
    /\ train_samples' = samples
    /\ rngAtReturn' = rng
    /\ firstRun' = IF rerun THEN firstRun
                   ELSE [firstRun EXCEPT ![group_idx + 1] = <<samples>>]
    /\ pc' = "alias"
    /\ UNCHANGED <<params, rng, rerun, group_idx, operators, group_name,
                   test_samples, train_dataset, test_dataset, passLocals,
                   disk, instHist, calls, seedArg, passes, saved, firstDisk>>

\* line 109
AliasTest ==
    /\ pc = "alias"
    /\ test_samples' = TestSamples(train_samples, test_size)
    /\ pc' = "create_train"
    /\ UNCHANGED <<params, rng, rerun, group_idx, operators, group_name,
                   train_samples, train_dataset, test_dataset, passLocals,
                   disk, instHist, passHist, saved, runHist>>

\* line 170
CreateTrain ==
    /\ pc = "create_train"
    /\ LET ds == create_dataset(train_samples, "train", group_idx)
       IN  /\ train_dataset' = ds
           /\ disk' = [disk EXCEPT ![group_idx + 1].train = <<ds>>]
    /\ saved' = saved \cup {"train"}
    /\ pc' = "create_test"
    /\ UNCHANGED <<params, rng, rerun, group_idx, operators, group_name,
                   train_samples, test_samples, test_dataset, passLocals,
                   instHist, passHist, runHist>>

\* line 171
CreateTest ==
    /\ pc = "create_test"
    /\ LET ds == create_dataset(test_samples, "test", group_idx)
       IN  /\ test_dataset' = ds
           /\ disk' = [disk EXCEPT ![group_idx + 1].test = <<ds>>]
    /\ saved' = saved \cup {"test"}
    /\ pc' = "group_done"
    /\ UNCHANGED <<params, rng, rerun, group_idx, operators, group_name,
                   train_samples, test_samples, train_dataset, passLocals,
                   instHist, passHist, runHist>>

(***************************************************************************)
(* The script: every group in the declared order.                          *)
(***************************************************************************)
\* lines 180-182: the next group
NextGroup ==
    /\ pc = "group_done"
    /\ group_idx + 1 < NumGroups
    /\ group_idx' = group_idx + 1
    /\ pc' = "group"
    /\ UNCHANGED <<params, rng, rerun, groupLocals, passLocals, disk,
                   instHist, passHist, saved, runHist>>

\* line 180: the loop over the groups ends
Finish ==
    /\ pc = "group_done"
    /\ group_idx + 1 = NumGroups
    /\ pc' = "done"
    /\ UNCHANGED <<params, rng, rerun, group_idx, groupLocals, passLocals,
                   disk, instHist, passHist, saved, runHist>>

\* the generation is run a second time with the same arguments
Rerun ==
    /\ pc = "done"
    /\ ~rerun
    /\ rerun' = TRUE
    /\ firstDisk' = disk
    /\ group_idx' = 0
    /\ pc' = "group"
    /\ UNCHANGED <<params, rng, groupLocals, passLocals, disk, instHist,
                   passHist, saved, firstRun>>

Next ==
    \/ StartGroup
    \/ CallGenerateSamples
    \/ DrawSize
    \/ DrawTarget
    \/ Construct
    \/ ConvertPath
    \/ DrawHeuristic
    \/ DrawSearch
    \/ RunDfs
    \/ DrawBeam
    \/ RunBfs
    \/ Rate
    \/ AppendSample
    \/ ReturnSamples
    \/ AliasTest
    \/ CreateTrain
    \/ CreateTest
    \/ NextGroup
    \/ Finish
    \/ Rerun

Spec == Init /\ [][Next]_vars

\* the program is sequential and keeps executing: its next statement runs
FairSpec == Init /\ [][Next]_vars /\ WF_vars(Next)

(***************************************************************************)
(* Properties.                                                             *)
(***************************************************************************)
PassPcs == {"loop", "retry", "construct", "path", "heuristic", "search",
            "dfs", "beam", "bfs", "rate", "append"}

RetryPcs == {"retry", "construct"}

ReturnedPcs == {"alias", "create_train", "create_test", "group_done"}

IsPrefix(a, b) == Len(a) <= Len(b) /\ a = SubSeq(b, 1, Len(a))

\* the rows of a file, none while the file is absent
Rows(file) == IF file = None THEN <<>> ELSE file[1]

\* C1: determinism.  The second run, with the same group, seed offset and
\* sizes and the same engine, builds sample by sample the sequence the first
\* run returned, returns that very sequence, and writes the same records.
C1_Determinism ==
    rerun =>
        /\ pc \in PassPcs => IsPrefix(samples, Rows(firstRun[group_idx + 1]))
        /\ pc \in ReturnedPcs =>
               /\ firstRun[group_idx + 1] # None
               /\ train_samples = firstRun[group_idx + 1][1]
        /\ pc = "group_done" => disk[group_idx + 1] = firstDisk[group_idx + 1]
        /\ pc = "done" => disk = firstDisk

\* the second run has written every group, with retries behind it
C1_Witness ==
    /\ rerun
    /\ pc = "done"
    /\ engine.kind = "mixed"
    /\ Len(train_samples) = MaxSize
    /\ \E k \in 1..Len(calls) : calls[k].attempts >= 2
    /\ disk = firstDisk

\* C2: every recorded sample has a non-null solution, and its target, numbers
\* and solution are the argument and the results of one cd.generate call, the
\* one that ended the retry loop; the loop goes on only after a null solution.
C2_Solvable ==
    /\ \A k \in 1..Len(samples) :
          /\ samples[k].solution # None
          /\ k <= Len(calls)
          /\ calls[k].gen.target = samples[k].target
          /\ calls[k].gen.nums = samples[k].nums
          /\ calls[k].gen.solution = samples[k].solution
    /\ \A k \in 1..Len(train_samples) : train_samples[k].solution # None
    /\ \A g \in 1..NumGroups : \A k \in 1..Len(Rows(disk[g].train)) :
          Rows(disk[g].train)[k].reward_model.ground_truth.solution # None
    /\ pc \in {"path", "heuristic", "search", "dfs", "beam", "bfs", "rate",
               "append"} =>
          /\ loc.solution # None
          /\ gen = [target |-> loc.target, nums |-> loc.nums,
                    solution |-> loc.solution]
    /\ (pc = "retry" /\ attempts > 0) => loc.solution = None

\* a sample recorded after a failed attempt
C2_Witness ==
    /\ pc = "loop"
    /\ \E k \in 1..Len(samples) :
          /\ calls[k].attempts >= 2
          /\ samples[k].solution # None

\* C3: a sample's rating is "1.0" exactly when its own search_path holds the
\* sentinel and "0.0" otherwise, in the samples and in the saved records.
C3_Rating ==
    /\ \A k \in 1..Len(samples) :
          /\ samples[k].rating \in {"0.0", "1.0"}
          /\ samples[k].rating = "1.0" <=>
                 Contains(samples[k].search_path, "Goal Reached")
    /\ \A g \in 1..NumGroups : \A k \in 1..Len(Rows(disk[g].train)) :
          LET gt == Rows(disk[g].train)[k].reward_model.ground_truth
          IN  /\ gt.rating \in {"0.0", "1.0"}
              /\ gt.rating = "1.0" <=> Contains(gt.search_path, "Goal Reached")

\* one pass holds a success and a failure, of instances of the same size
C3_Witness ==
    /\ pc = "loop"
    /\ \E j, k \in 1..Len(samples) :
          /\ samples[j].rating = "1.0"
          /\ samples[k].rating = "0.0"
          /\ Len(samples[j].nums) = Len(samples[k].nums)
          /\ samples[j].search_type = samples[k].search_type

\* C4: in every saved split of every group, and in the datasets returned,
\* the k-th record (from 0) has extra_info.index = k.
C4_IndexContiguity ==
    /\ \A g \in 1..NumGroups :
          /\ \A k \in 1..Len(Rows(disk[g].train)) :
                Rows(disk[g].train)[k].extra_info.index = k - 1
          /\ \A k \in 1..Len(Rows(disk[g].test)) :
                Rows(disk[g].test)[k].extra_info.index = k - 1
    /\ \A k \in 1..Len(train_dataset) : train_dataset[k].extra_info.index = k - 1
    /\ \A k \in 1..Len(test_dataset) : test_dataset[k].extra_info.index = k - 1

\* both splits of two groups are saved, each with several records
C4_Witness ==
    /\ Len(Rows(disk[1].train)) >= 2
    /\ Len(Rows(disk[1].test)) >= 2
    /\ Len(Rows(disk[2].train)) >= 2
    /\ Len(Rows(disk[2].test)) >= 2
    /\ Rows(disk[2].test)[1].extra_info.index = 0

\* C5: the test split is the train split's sample sequence: one generation
\* pass per group, no draw after it, train_size records in the test dataset,
\* each equal to the train record but for extra_info.split.
C5_TestAliasesTrain ==
    /\ pc \in {"create_train", "create_test", "group_done"} =>
          /\ test_samples = train_samples
          /\ passes = 1
          /\ rng = rngAtReturn
    /\ pc = "group_done" =>
          /\ Len(test_dataset) = train_size
          /\ Len(train_dataset) = train_size
          /\ \A k \in 1..Len(test_dataset) :
                /\ train_dataset[k].extra_info.split = "train"
                /\ test_dataset[k] =
                       [train_dataset[k] EXCEPT !.extra_info.split = "test"]

\* a group is finished with a test_size below the train_size
C5_Witness ==
    /\ pc = "group_done"
    /\ train_size = MaxSize
    /\ test_size = 1
    /\ Len(test_dataset) = MaxSize
    /\ test_dataset[MaxSize].extra_info.split = "test"

\* C6: within a pass random.seed was called exactly once, with
\* 42 + group_idx + seed_offset, and the pass's first draw reads the state
\* that seed sets, not what an earlier pass left.
C6_SeededOncePerPass ==
    /\ pc \in PassPcs => seedArg = <<42 + group_idx + seed_offset>>
    /\ (pc = "loop" /\ done = 0) =>
          rng = (42 + group_idx + seed_offset) % RngMod

\* a later group's pass of the second run is about to draw for the first time
C6_Witness ==
    /\ rerun
    /\ group_idx = 2
    /\ pc = "loop"
    /\ done = 0
    /\ num_samples > 0
    /\ rngAtReturn # rng

\* every retry loop is left again: the engine gives it a solution in the end
RetryLoopsEnd == []<>(pc \notin RetryPcs)

\* C7: if every retry loop receives a solution, each call of generate_samples
\* returns, with exactly num_samples samples, one per completed iteration,
\* and the group's train dataset holds exactly train_size records (none when
\* train_size is 0).
C7_CompletesWithExactCount ==
    RetryLoopsEnd =>
        /\ [](pc \in PassPcs => Len(samples) = done /\ done <= num_samples)
        /\ [](pc = "call_train" =>
                <>(/\ pc = "group_done"
                   /\ num_samples = train_size
                   /\ Len(train_samples) = train_size
                   /\ Len(train_dataset) = train_size))

\* a full pass has returned although attempts had failed
C7_Witness ==
    /\ pc = "alias"
    /\ engine.kind = "mixed"
    /\ train_size = MaxSize
    /\ Len(train_samples) = MaxSize
    /\ \E k \in 1..Len(calls) : calls[k].attempts >= 2

\* the attempt about to be made returns a null solution
NullAttempt ==
    pc = "construct" => Generate(engine, loc.cd, loc.target, rng).solution = None

\* C8: from a retry loop in which every attempt returns a null solution the
\* sampler never comes out: it stays between the target draw and the
\* construction, draws a target again and again, appends nothing, returns
\* nothing and saves nothing for the group.
C8_RetryUnbounded ==
    []((pc = "retry" /\ []NullAttempt) =>
          /\ [](/\ pc \in RetryPcs
                /\ Len(samples) = done
                /\ train_samples = <<>>
                /\ saved = {})
          /\ []<>(pc = "retry")
          /\ []<>(pc = "construct"))

\* the loop is still drawing after more attempts than are counted
C8_Witness ==
    /\ engine.kind = "never"
    /\ pc = "retry"
    /\ attempts = MaxAttemptsLogged
    /\ Len(drawLog) = 1 + MaxAttemptsLogged
    /\ samples = <<>>
    /\ saved = {}

\* C9: a sample's search_type is "dfs" when depth-first search made its trace
\* and "bfs_<w>" when beam search did, w being the width passed to that very
\* call, drawn for this instance from 1..5; dfs is called with the instance's
\* target as threshold.
C9_SearchTypeLabel ==
    \A k \in 1..Len(samples) :
        LET s == samples[k]
            c == calls[k].srch
        IN  /\ c.target = s.target
            /\ c.nums = s.nums
            /\ c.heuristic = s.heuristic
            /\ c.fn \in {"dfs", "bfs"}
            /\ c.fn = "dfs" =>
                  /\ s.search_type = <<"dfs">>
                  /\ c.threshold = s.target
                  /\ s.search_path = Dfs(s.target, s.nums, s.heuristic, s.target)
                  /\ ~Contains(calls[k].draws, "beam")
            /\ c.fn = "bfs" =>
                  /\ c.width \in 1..5
                  /\ s.search_type = <<"bfs", "_", Digit[c.width + 1]>>
                  /\ s.search_path = Bfs(s.target, s.nums, c.width, s.heuristic)
                  /\ Contains(calls[k].draws, "beam")

\* a dfs sample follows a bfs sample, whose width is still bound
C9_Witness ==
    /\ pc = "loop"
    /\ Len(samples) >= 2
    /\ samples[1].search_type[1] = "bfs"
    /\ samples[2].search_type = <<"dfs">>
    /\ loc.beam_size \in 1..5

\* n times "target"
RECURSIVE Targets(_)
Targets(n) == IF n = 0 THEN <<>> ELSE <<"target">> \o Targets(n - 1)

\* C10: the driver's draws of an instance are, in this order: the size, one
\* target per construction attempt, the heuristic, the strategy, and the beam
\* width exactly when bfs was selected; the size and the CountDown object are
\* those of every attempt, and no seed call comes between the draws.
C10_DrawOrder ==
    /\ \A k \in 1..Len(samples) :
          LET c == calls[k]
          IN  /\ c.attempts >= 1
              /\ c.draws = <<"size">> \o Targets(c.attempts)
                             \o <<"heuristic", "search">>
                             \o (IF samples[k].search_type[1] = "bfs"
                                 THEN <<"beam">> ELSE <<>>)
              /\ Len(samples[k].nums) = c.start_size
              /\ pc \in PassPcs =>
                     c.cd = CountDown(1000, c.start_size,
                                      operator_groups[group_idx + 1])
    /\ pc \in (PassPcs \ {"loop"}) => (drawLog # <<>> /\ drawLog[1] = "size")
    /\ pc \in PassPcs => Len(seedArg) = 1

\* a bfs sample built on the second attempt or later
C10_Witness ==
    /\ pc = "loop"
    /\ \E k \in 1..Len(samples) :
          calls[k].draws = <<"size", "target", "target", "heuristic",
                             "search", "beam">>

=============================================================================
